---- MODULE Spec2Model ----
(***************************************************************************)
(* Model of static/js/blockchain-client.js: one BlockchainClient instance  *)
(* (apiVersionChecked, apiCompatible, lastHealthCheck) used by several     *)
(* asynchronous invocations of checkApiHealth, createBlockchain and        *)
(* testApiEndpoints.  JavaScript runs each stretch of code between two     *)
(* awaits atomically, so every action below is one such stretch: the code  *)
(* from a call (or from the settlement of the awaited promise) up to the   *)
(* next await, return or throw.  The remote service is the environment:    *)
(* every fetch, response.json() and response.text() settles with an        *)
(* outcome chosen from the sets below.                                     *)
(***************************************************************************)
EXTENDS Integers, Sequences, FiniteSets, TLC

\* ---------------------------------------------------------------- callers
\* The threads of control that use the instance: the page (the UI path) and
\* the operator (the diagnostic path).  Each makes one call after the other,
\* awaiting each; the two run concurrently, so up to two invocations are in
\* progress at a time, and each caller's sequence of calls is unbounded.
Calls == {"page", "operator"}

\* ------------------------------------------------------- program constants
\* A version string "a.b.c" is the tuple <<a, b, c>>; the empty string is <<>>.
\* String equality is tuple equality.
expectedApiVersion == <<1, 0, 0>>

compatibleVersions == << <<1, 0, 0>>, <<1, 0, 1>>, <<1, 1, 0>> >>

\* ------------------------------------------------------------ environment
\* fetch outcome: TransportFailure (the promise rejects) or an HTTP status
TransportFailure == 0

NotDispatched == -1

HttpStatuses == {200, 404, 500}

FetchOutcomes == {TransportFailure} \cup HttpStatuses

\* response.ok
ResponseOk(status) == status >= 200 /\ status <= 299

\* version values a health response may carry: a listed one, same-major
\* unlisted, other-major, and the empty string
ProbeVersions == { <<1, 1, 0>>, <<1, 2, 0>>, <<2, 0, 0>>, <<>> }

\* what response.json() of a 2xx response yields
Body(kind, hasVersion, version) ==
    [kind |-> kind, hasVersion |-> hasVersion, version |-> version]

\* JSON null; also the constructor's value of lastHealthCheck
JsNull == Body("null", FALSE, <<>>)

\* the body is not JSON: response.json() rejects
NotJson == Body("notjson", FALSE, <<>>)

\* the body has not been read (yet)
Unread == Body("unread", FALSE, <<>>)

HealthBodies ==
    {JsNull, NotJson, Body("object", FALSE, <<>>)}
        \cup {Body("object", TRUE, v) : v \in ProbeVersions}

\* bodies of the other endpoints matter only as far as the code reads them
DataBodies == {JsNull, NotJson, Body("object", FALSE, <<>>)}

\* ----------------------------------------------------------------- errors
\* a JavaScript error object: its constructor name and its message, the
\* message being a template and the number interpolated into it (if any).
\* The objects the code throws have no other own field.
NoArg == -1

Err(name, tpl, arg) == [name |-> name, tpl |-> tpl, arg |-> arg]

NoErr == Err("", "", NoArg)

\* what a rejected fetch carries (network error)
FetchError == Err("TypeError", "Failed to fetch", NoArg)

\* what a rejected response.json() carries
JsonError == Err("SyntaxError", "Unexpected token in JSON", NoArg)

\* property access on null
NullAccessError == Err("TypeError", "Cannot read properties of null", NoArg)

\* ---------------------------------------------------------- JS primitives
\* truthiness of a string: non-empty
Truthy(str) == Len(str) > 0

\* Array.prototype.includes
Includes(list, x) == \E k \in 1..Len(list) : list[k] = x

\* ---------------------------------------------------------------- verdicts
\* The object checkApiHealth resolves with.  A field the object literal does
\* not set (warning, error) reads as undefined: FALSE / NoErr.  version is
\* modelled by versionKnown/version ('unknown' and undefined: not known).
Verdict(success, compatible, warning, message, versionKnown, version, error) ==
    [success |-> success, compatible |-> compatible, warning |-> warning,
     message |-> message, versionKnown |-> versionKnown, version |-> version,
     error |-> error]

NoVerdict == Verdict(FALSE, FALSE, FALSE, "", FALSE, <<>>, NoErr)

\* faulty variant: the catch branch reports the API as compatible
UnavailableVerdictCompatible(error) ==
    Verdict(FALSE, TRUE, FALSE, "CloudManager API unavailable: ${error.message}",
            FALSE, <<>>, error)

\* blockchain-client.js:48-55, the catch branch
UnavailableVerdict(error) ==
    Verdict(FALSE, FALSE, FALSE, "CloudManager API unavailable: ${error.message}",
            FALSE, <<>>, error)

\* blockchain-client.js:40-46
AssumedCompatibleVerdict ==
    Verdict(TRUE, TRUE, FALSE, "API health OK (version unknown, assuming compatible)",
            FALSE, <<>>, NoErr)

\* blockchain-client.js:62
IsCompatible(apiVersion) == Includes(compatibleVersions, apiVersion)

\* faulty variant: the warning flag is set on the compatible verdict as well
VersionVerdictAlwaysWarns(apiVersion) ==
    IF IsCompatible(apiVersion)
    THEN Verdict(TRUE, TRUE, TRUE, "CloudManager API v${apiVersion} is compatible",
                 TRUE, apiVersion, NoErr)
    ELSE Verdict(TRUE, FALSE, TRUE,
                 "CloudManager API v${versionText} may not be compatible. Expected: ${compatibleVersions}",
                 TRUE, apiVersion, NoErr)

\* blockchain-client.js:66-85, the returned object
VersionVerdict(apiVersion) ==
    IF IsCompatible(apiVersion)
    THEN Verdict(TRUE, TRUE, FALSE, "CloudManager API v${apiVersion} is compatible",
                 TRUE, apiVersion, NoErr)
    ELSE Verdict(TRUE, FALSE, TRUE,
                 "CloudManager API v${versionText} may not be compatible. Expected: ${compatibleVersions}",
                 TRUE, apiVersion, NoErr)

\* blockchain-client.js:34, "version info is available"
HasVersionInfo(healthData) == healthData.hasVersion /\ Truthy(healthData.version)

VerdictKind(v) ==
    IF ~v.success THEN "UNAVAILABLE"
    ELSE IF v.compatible THEN "COMPATIBLE" ELSE "INCOMPATIBLE_WARNING"

\* ------------------------------------------------------------------ state
VARIABLES
    apiVersionChecked,  \* this.apiVersionChecked
    apiCompatible,      \* this.apiCompatible
    lastHealthCheck,    \* this.lastHealthCheck
    calls,              \* the invocations: position, locals, requests, result
    everHealthOK,       \* history: some health check has completed with success:true
    lastVerdictKind     \* history: kind of the verdict returned last ("none" at first),
                        \* "ABANDONED" when a check was given up since

\* the statistics aggregator (spec section 4.2), one run of aggregate()
VARIABLES
    records,            \* the input sequence of raw DLOID records
    index,              \* number of records handled so far
    total,              \* the result's total
    skipped,            \* the result's skipped
    errors,             \* the result's errors
    returned            \* aggregate() has returned its result

\* the DLOID codec (spec section 4.1), one encode followed by one decode
VARIABLES
    fields,             \* the DloidFields value handed to encode
    encoded,            \* what encode gave
    decoded             \* what decode gave for the encoded record

clientVars == <<apiVersionChecked, apiCompatible, lastHealthCheck, calls,
                everHealthOK, lastVerdictKind>>

aggVars == <<records, index, total, skipped, errors, returned>>

codecVars == <<fields, encoded, decoded>>

vars == <<apiVersionChecked, apiCompatible, lastHealthCheck, calls,
          everHealthOK, lastVerdictKind,
          records, index, total, skipped, errors, returned,
          fields, encoded, decoded>>

Ops == {"checkApiHealth", "createBlockchain", "testApiEndpoints"}

\* the codec before it is used
NoFields == [quantity |-> 0, rating |-> 0, flags |-> <<>>]
NotEncoded == [ok |-> FALSE, error |-> "", raw |-> <<>>]
NotDecoded == [ok |-> FALSE, reason |-> "", quantity |-> 0, rating |-> 0, flags |-> <<>>]

\* the owner id argument: null (or undefined, which the default turns into
\* null), the empty string, a UUID string
UserUuids == {"null", "empty", "valid"}

\* What a caller's current invocation holds.  Locals are kept while the code
\* can still read them and cleared when they go out of scope, except for
\* what the returned value or the claims' histories need.
IdleCall ==
    [op |-> "none", pc |-> "idle",
     userUuid |-> "null", dloidOk |-> FALSE,   \* createBlockchain's arguments
     prior |-> "none",           \* lastVerdictKind when this call's probe was sent (kept by
                                 \* createBlockchain only while the probe is under way)
     probes |-> 0,               \* GET /api/health requests sent by this call
     hstatus |-> NotDispatched,  \* how the probe's fetch settled
     hbody |-> Unread,           \* what response.json() of the probe gave
     hdone |-> FALSE,            \* checkApiHealth has returned to this call
     verdict |-> NoVerdict,      \* what it returned (versionCheck, line 222)
     inlineKind |-> "none",      \* createBlockchain: kind of the verdict lines 223-230 handled
     rHealth |-> "null",         \* testResults.health: null, or the verdict's kind
     lists |-> 0,                \* GET /api/blockchains requests sent
     rList |-> "null",           \* testResults.blockchains: null / ok / fail
     posts |-> 0,                \* POST /api/blockchains requests sent
     pstatus |-> NotDispatched,  \* how the POST's fetch settled
     pbody |-> Unread,           \* what response.json() of the POST gave
     rCreate |-> "null",         \* testResults.createBlockchain: null / ok / fail
     overall |-> "unknown",      \* testResults.overall
     outcome |-> "pending",      \* the promise: pending / fulfilled / rejected
     error |-> NoErr]            \* the rejection reason

Init ==
    /\ apiVersionChecked = FALSE
    /\ apiCompatible = FALSE
    /\ lastHealthCheck = JsNull
    /\ calls = [i \in Calls |-> IdleCall]
    /\ everHealthOK = FALSE
    /\ lastVerdictKind = "none"
    /\ records = <<>>
    /\ index = 0
    /\ total = 0
    /\ skipped = 0
    /\ errors = <<>>
    /\ returned = FALSE
    /\ fields = NoFields
    /\ encoded = NotEncoded
    /\ decoded = NotDecoded

\* -------------------------------------------------------- promise settling
Reject(c, error) == [c EXCEPT !.pc = "done", !.outcome = "rejected", !.error = error]

Fulfil(c) == [c EXCEPT !.pc = "done", !.outcome = "fulfilled"]

\* ----------------------------------------------------------- checkApiHealth
\* How a run of checkApiHealth ends: it returns a verdict, or it throws.
Returns(verdict) == [threw |-> FALSE, error |-> NoErr, verdict |-> verdict]

Throws(error) == [threw |-> TRUE, error |-> error, verdict |-> NoVerdict]

\* faulty variant: no catch, the error leaves checkApiHealth
HealthCatchRethrow(error) == Throws(error)

\* blockchain-client.js:48-56: whatever is thrown inside the try block is
\* caught and turned into the UNAVAILABLE verdict
HealthCatch(error) == Returns(UnavailableVerdict(error))

\* blockchain-client.js:24-26
HealthHttpError(status) == Err("Error", "Health check failed! HTTP ${response.status}", status)

\* faulty variant: the compatibility flag is merged with its old value
validateApiVersionMerging(apiVersion) ==
    [apiVersionChecked |-> TRUE,
     apiCompatible |-> (apiCompatible \/ IsCompatible(apiVersion)),
     end |-> Returns(VersionVerdict(apiVersion))]

\* faulty variant: only a compatible version marks the instance checked
validateApiVersionUnchecks(apiVersion) ==
    [apiVersionChecked |-> IsCompatible(apiVersion),
     apiCompatible |-> IsCompatible(apiVersion),
     end |-> Returns(VersionVerdict(apiVersion))]

\* blockchain-client.js:59-86: the flags it writes and the object it returns
validateApiVersion(apiVersion) ==
    [apiVersionChecked |-> TRUE,
     apiCompatible |-> IsCompatible(apiVersion),
     end |-> Returns(VersionVerdict(apiVersion))]

\* faulty variant: a response without version information marks the instance
\* checked but not compatible
AssumeIncompatible ==
    [apiVersionChecked |-> TRUE,
     apiCompatible |-> FALSE,
     end |-> Returns(AssumedCompatibleVerdict)]

\* blockchain-client.js:36-47: the response has no version information
AssumeCompatible ==
    [apiVersionChecked |-> TRUE,
     apiCompatible |-> TRUE,
     end |-> Returns(AssumedCompatibleVerdict)]

\* faulty variant: the instance is marked checked before the version is read
HealthDecisionMarksEarly(healthData, checked, compatible) ==
    IF healthData.kind = "null"
    THEN [apiVersionChecked |-> TRUE, apiCompatible |-> compatible,
          end |-> HealthCatch(NullAccessError)]
    ELSE IF HasVersionInfo(healthData)
         THEN validateApiVersion(healthData.version)
         ELSE AssumeCompatible

\* faulty variant: a failing check clears the flags
HealthDecisionResets(healthData, checked, compatible) ==
    IF healthData.kind = "null"
    THEN [apiVersionChecked |-> FALSE, apiCompatible |-> FALSE,
          end |-> HealthCatch(NullAccessError)]
    ELSE IF HasVersionInfo(healthData)
         THEN validateApiVersion(healthData.version)
         ELSE AssumeCompatible

\* blockchain-client.js:28-47 once response.json() has resolved with
\* healthData: the new values of the flags and how the function ends
HealthDecision(healthData, checked, compatible) ==
    IF healthData.kind = "null"
    THEN \* healthData.version throws
         [apiVersionChecked |-> checked, apiCompatible |-> compatible,
          end |-> HealthCatch(NullAccessError)]
    ELSE IF HasVersionInfo(healthData)
         THEN validateApiVersion(healthData.version)
         ELSE AssumeCompatible

\* faulty variant: a checked instance answers from its cache without a probe
StartHealthCached(c) ==
    IF apiVersionChecked
    THEN Fulfil(c)
    ELSE [c EXCEPT !.pc = "h_fetch", !.probes = @ + 1]

\* blockchain-client.js:17: the probe is sent
StartHealth(c) ==
    [c EXCEPT !.pc = "h_fetch", !.probes = @ + 1,
              !.prior = IF c.op \in {"checkApiHealth", "createBlockchain"}
                        THEN lastVerdictKind ELSE "none"]

\* faulty variant: a check that found the API unavailable probes once more
HealthReturnRetries(c, end) ==
    LET d == [c EXCEPT !.hdone = ~end.threw, !.verdict = end.verdict]
    IN  IF ~end.threw /\ ~end.verdict.success
        THEN [c EXCEPT !.pc = "h_fetch", !.probes = IF @ < 2 THEN @ + 1 ELSE @]
        ELSE CASE c.op = "checkApiHealth" -> Fulfil(d)
               [] c.op = "createBlockchain" -> [d EXCEPT !.pc = "c_checked", !.prior = "none"]
               [] OTHER -> [d EXCEPT !.pc = "t_checked"]

\* the invocation that awaited checkApiHealth goes on: the explicit call
\* settles; createBlockchain (line 222) and testApiEndpoints (line 99)
\* resume in their next step.  The await of line 222 is outside any try; the
\* one of line 99 is inside the try of lines 97-200.
HealthReturn(c, end) ==
    LET d == [c EXCEPT !.hdone = ~end.threw, !.verdict = end.verdict]
    IN  CASE c.op = "checkApiHealth" ->
               IF end.threw THEN Reject(d, end.error) ELSE Fulfil(d)
          [] c.op = "createBlockchain" ->
               IF end.threw THEN Reject(d, end.error)
               ELSE [d EXCEPT !.pc = "c_checked", !.prior = "none"]
          [] OTHER ->
               IF end.threw
               THEN Fulfil([d EXCEPT !.overall = "failure", !.error = end.error])
               ELSE [d EXCEPT !.pc = "t_checked"]

\* the history variables follow the verdicts that are returned
Record(end) ==
    /\ everHealthOK' = (everHealthOK \/ (~end.threw /\ end.verdict.success))
    /\ lastVerdictKind' = IF end.threw THEN lastVerdictKind ELSE VerdictKind(end.verdict)

\* an explicit call of checkApiHealth (line 14)
CallCheckApiHealth(i) ==
    /\ calls[i].pc = "idle"
    /\ calls' = [calls EXCEPT ![i] = StartHealth([IdleCall EXCEPT !.op = "checkApiHealth"])]
    /\ UNCHANGED <<apiVersionChecked, apiCompatible, lastHealthCheck,
                   everHealthOK, lastVerdictKind>>
    /\ UNCHANGED <<aggVars, codecVars>>

\* the fetch of line 17 settles: lines 17-28 up to the await of response.json()
HealthFetchSettles(i) ==
    /\ calls[i].pc = "h_fetch"
    /\ \E st \in FetchOutcomes :
         LET c == [calls[i] EXCEPT !.hstatus = st]
         IN  IF st = TransportFailure
             THEN /\ calls' = [calls EXCEPT ![i] = HealthReturn(c, HealthCatch(FetchError))]
                  /\ Record(HealthCatch(FetchError))
             ELSE IF ~ResponseOk(st)
             THEN /\ calls' = [calls EXCEPT ![i] = HealthReturn(c, HealthCatch(HealthHttpError(st)))]
                  /\ Record(HealthCatch(HealthHttpError(st)))
             ELSE /\ calls' = [calls EXCEPT ![i] = [c EXCEPT !.pc = "h_json"]]
                  /\ UNCHANGED <<everHealthOK, lastVerdictKind>>
    /\ UNCHANGED <<apiVersionChecked, apiCompatible, lastHealthCheck>>
    /\ UNCHANGED <<aggVars, codecVars>>

\* response.json() of line 28 settles: lines 28-47, or the catch
HealthJsonSettles(i) ==
    /\ calls[i].pc = "h_json"
    /\ \E healthData \in HealthBodies :
         LET c == [calls[i] EXCEPT !.hbody = healthData]
             dec == HealthDecision(healthData, apiVersionChecked, apiCompatible)
         IN  IF healthData = NotJson
             THEN /\ calls' = [calls EXCEPT ![i] = HealthReturn(c, HealthCatch(JsonError))]
                  /\ Record(HealthCatch(JsonError))
                  /\ UNCHANGED <<apiVersionChecked, apiCompatible, lastHealthCheck>>
             ELSE /\ lastHealthCheck' = healthData
                  /\ apiVersionChecked' = dec.apiVersionChecked
                  /\ apiCompatible' = dec.apiCompatible
                  /\ calls' = [calls EXCEPT ![i] = HealthReturn(c, dec.end)]
                  /\ Record(dec.end)
    /\ UNCHANGED <<aggVars, codecVars>>

\* --------------------------------------------------------- createBlockchain
\* faulty variant: userUuid === null, the empty string passes
OwnerMissingNullOnly(userUuid) == userUuid = "null"

\* blockchain-client.js:215, !userUuid: null, undefined and '' are all falsy
OwnerMissing(userUuid) == userUuid \in {"null", "empty"}

ValidationError == Err("Error", "user_uuid is required for blockchain creation", NoArg)

\* faulty variant: the version check is never run
NeedsCheckNever(checked) == FALSE

\* faulty variant: the version check is run on every call
NeedsCheckAlways(checked) == TRUE

\* blockchain-client.js:220
NeedsCheck(checked) == ~checked

\* faulty variant: the verdict of the inline check is ignored
CheckFailedNever(versionCheck) == FALSE

\* faulty variant: a version warning blocks the call as well
CheckFailedOrWarned(versionCheck) == ~versionCheck.success \/ versionCheck.warning

\* blockchain-client.js:223
CheckFailed(versionCheck) == ~versionCheck.success

UnavailableError == Err("Error", "CloudManager API unavailable: ${versionCheck.message}", NoArg)

\* faulty variant: the message does not mention the status
HttpErrorNoStatus(status) == Err("Error", "HTTP error!", NoArg)

\* blockchain-client.js:249-251: the status is part of the message text only
HttpError(status) == Err("Error", "HTTP error! status: ${response.status}", status)

\* faulty variant: the catch logs the error and returns nothing
CreateCatchSwallow(c, error) == Fulfil(c)

\* faulty variant: the catch sends the POST once more before giving up
CreateCatchRetry(c, error) ==
    IF c.posts < 2
    THEN [c EXCEPT !.pc = "c_fetch", !.posts = @ + 1]
    ELSE Reject(c, error)

\* blockchain-client.js:254-257: the catch logs and throws the same object again
CreateCatch(c, error) == Reject(c, error)

\* blockchain-client.js:226-247: versionCheck goes out of scope and the POST
\* is sent
SendPost(c) ==
    [c EXCEPT !.pc = "c_fetch", !.posts = @ + 1,
              !.verdict = NoVerdict, !.hstatus = NotDispatched, !.hbody = Unread]

\* faulty variant: the owner id is looked at only after the version check
CreateEntryChecksFirst(c, checked) ==
    IF ~c.dloidOk THEN Reject(c, NullAccessError)
    ELSE IF NeedsCheck(checked) THEN StartHealth(c)
    ELSE IF OwnerMissing(c.userUuid) THEN Reject(c, ValidationError)
    ELSE SendPost(c)

\* blockchain-client.js:206-234, the synchronous start of createBlockchain:
\* line 211 reads dloidParams.firstName, line 215 tests the owner id, line 220
\* decides on the inline check
CreateEntry(c, checked) ==
    IF ~c.dloidOk THEN Reject(c, NullAccessError)
    ELSE IF OwnerMissing(c.userUuid) THEN Reject(c, ValidationError)
    ELSE IF NeedsCheck(checked) THEN StartHealth(c)
    ELSE SendPost(c)

\* a call of createBlockchain: lines 206-231 up to the first await
CallCreateBlockchain(i) ==
    /\ calls[i].pc = "idle"
    /\ \E dloidOk \in BOOLEAN, userUuid \in UserUuids :
         LET c == [IdleCall EXCEPT !.op = "createBlockchain", !.userUuid = userUuid,
                                   !.dloidOk = dloidOk]
         IN  calls' = [calls EXCEPT ![i] = CreateEntry(c, apiVersionChecked)]
    /\ UNCHANGED <<apiVersionChecked, apiCompatible, lastHealthCheck,
                   everHealthOK, lastVerdictKind>>
    /\ UNCHANGED <<aggVars, codecVars>>

\* createBlockchain resumes after the await of line 222: lines 223-234
CreateAfterCheck(i) ==
    /\ calls[i].pc = "c_checked"
    /\ LET c == [calls[i] EXCEPT !.inlineKind = VerdictKind(calls[i].verdict)]
       IN  calls' = [calls EXCEPT ![i] =
               IF CheckFailed(c.verdict)
               THEN Reject(c, UnavailableError)
               ELSE SendPost(c)]
    /\ UNCHANGED <<apiVersionChecked, apiCompatible, lastHealthCheck,
                   everHealthOK, lastVerdictKind>>
    /\ UNCHANGED <<aggVars, codecVars>>

\* the fetch of line 234 settles: lines 249-253 up to the await of json()
CreatePostSettles(i) ==
    /\ calls[i].pc = "c_fetch"
    /\ \E st \in FetchOutcomes :
         LET c == [calls[i] EXCEPT !.pstatus = st]
         IN  calls' = [calls EXCEPT ![i] =
                 IF st = TransportFailure THEN CreateCatch(c, FetchError)
                 ELSE IF ~ResponseOk(st) THEN CreateCatch(c, HttpError(st))
                 ELSE [c EXCEPT !.pc = "c_json"]]
    /\ UNCHANGED <<apiVersionChecked, apiCompatible, lastHealthCheck,
                   everHealthOK, lastVerdictKind>>
    /\ UNCHANGED <<aggVars, codecVars>>

\* response.json() of line 253 settles
CreateJsonSettles(i) ==
    /\ calls[i].pc = "c_json"
    /\ \E data \in DataBodies :
         LET c == [calls[i] EXCEPT !.pbody = data]
         IN  calls' = [calls EXCEPT ![i] =
                 IF data = NotJson THEN CreateCatch(c, JsonError) ELSE Fulfil(c)]
    /\ UNCHANGED <<apiVersionChecked, apiCompatible, lastHealthCheck,
                   everHealthOK, lastVerdictKind>>
    /\ UNCHANGED <<aggVars, codecVars>>

\* --------------------------------------------------------- testApiEndpoints
\* blockchain-client.js:186, test?.success
Succeeded(r) == r = "ok"

\* the same for the health entry, kept by the kind of the verdict
HealthSucceeded(r) == r \in {"COMPATIBLE", "INCOMPATIBLE_WARNING"}

SuccessCount(c) ==
    (IF HealthSucceeded(c.rHealth) THEN 1 ELSE 0)
    + (IF Succeeded(c.rList) THEN 1 ELSE 0)
    + (IF Succeeded(c.rCreate) THEN 1 ELSE 0)

\* faulty variant: one success is already enough for a warning
OverallOffByOne(successCount) ==
    IF successCount = 3 THEN "success"
    ELSE IF successCount >= 1 THEN "warning"
    ELSE "failure"

\* blockchain-client.js:188-194
Overall(successCount) ==
    IF successCount = 3 THEN "success"
    ELSE IF successCount >= 2 THEN "warning"
    ELSE "failure"

\* faulty variant: the create probe is skipped when an earlier probe failed
SendTestPostUnlessFailed(c) ==
    IF c.rHealth = "UNAVAILABLE" \/ c.rList = "fail"
    THEN Fulfil([c EXCEPT !.rCreate = "fail", !.overall = "failure"])
    ELSE [c EXCEPT !.pc = "t_post_fetch", !.posts = @ + 1]

\* blockchain-client.js:153: the synthetic create POST is sent
SendTestPost(c) == [c EXCEPT !.pc = "t_post_fetch", !.posts = @ + 1]

\* faulty variant: the overall classification is never computed
FinishTestUnknown(c) == Fulfil(c)

\* blockchain-client.js:184-203
FinishTest(c) == Fulfil([c EXCEPT !.overall = Overall(SuccessCount(c))])

\* a call of testApiEndpoints: lines 88-99
CallTestApiEndpoints(i) ==
    /\ calls[i].pc = "idle"
    /\ calls' = [calls EXCEPT ![i] = StartHealth([IdleCall EXCEPT !.op = "testApiEndpoints"])]
    /\ UNCHANGED <<apiVersionChecked, apiCompatible, lastHealthCheck,
                   everHealthOK, lastVerdictKind>>
    /\ UNCHANGED <<aggVars, codecVars>>

\* testApiEndpoints resumes after the await of line 99: lines 99-103
TestAfterCheck(i) ==
    /\ calls[i].pc = "t_checked"
    /\ calls' = [calls EXCEPT ![i] =
           [@ EXCEPT !.rHealth = VerdictKind(calls[i].verdict),
                     !.verdict = NoVerdict, !.hstatus = NotDispatched, !.hbody = Unread,
                     !.pc = "t_list_fetch", !.lists = @ + 1]]
    /\ UNCHANGED <<apiVersionChecked, apiCompatible, lastHealthCheck,
                   everHealthOK, lastVerdictKind>>
    /\ UNCHANGED <<aggVars, codecVars>>

\* the fetch of line 103 settles: lines 108-128, then line 153
TestListSettles(i) ==
    /\ calls[i].pc = "t_list_fetch"
    /\ \E st \in FetchOutcomes :
         LET c == calls[i]
         IN  calls' = [calls EXCEPT ![i] =
                 IF st = TransportFailure \/ ~ResponseOk(st)
                 THEN SendTestPost([c EXCEPT !.rList = "fail"])
                 ELSE [c EXCEPT !.pc = "t_list_json"]]
    /\ UNCHANGED <<apiVersionChecked, apiCompatible, lastHealthCheck,
                   everHealthOK, lastVerdictKind>>
    /\ UNCHANGED <<aggVars, codecVars>>

\* response.json() of line 109 settles: lines 110-114 (data.count throws on
\* null, caught at line 122), then line 153
TestListJsonSettles(i) ==
    /\ calls[i].pc = "t_list_json"
    /\ \E data \in DataBodies :
         LET c == calls[i]
         IN  calls' = [calls EXCEPT ![i] =
                 SendTestPost([c EXCEPT !.rList =
                     IF data.kind = "object" THEN "ok" ELSE "fail"])]
    /\ UNCHANGED <<apiVersionChecked, apiCompatible, lastHealthCheck,
                   everHealthOK, lastVerdictKind>>
    /\ UNCHANGED <<aggVars, codecVars>>

\* the fetch of line 153 settles: lines 159-182
TestPostSettles(i) ==
    /\ calls[i].pc = "t_post_fetch"
    /\ \E st \in FetchOutcomes :
         LET c == calls[i]
         IN  calls' = [calls EXCEPT ![i] =
                 IF st = TransportFailure THEN FinishTest([c EXCEPT !.rCreate = "fail"])
                 ELSE IF ~ResponseOk(st) THEN [c EXCEPT !.pc = "t_post_text"]
                 ELSE [c EXCEPT !.pc = "t_post_json"]]
    /\ UNCHANGED <<apiVersionChecked, apiCompatible, lastHealthCheck,
                   everHealthOK, lastVerdictKind>>
    /\ UNCHANGED <<aggVars, codecVars>>

\* response.text() of line 168 settles: lines 169-174, or the catch of 176
TestPostTextSettles(i) ==
    /\ calls[i].pc = "t_post_text"
    /\ calls' = [calls EXCEPT ![i] = FinishTest([@ EXCEPT !.rCreate = "fail"])]
    /\ UNCHANGED <<apiVersionChecked, apiCompatible, lastHealthCheck,
                   everHealthOK, lastVerdictKind>>
    /\ UNCHANGED <<aggVars, codecVars>>

\* response.json() of line 160 settles: lines 161-166 (data.blockchain_id
\* throws on null, caught at line 176)
TestPostJsonSettles(i) ==
    /\ calls[i].pc = "t_post_json"
    /\ \E data \in DataBodies :
         LET c == calls[i]
         IN  calls' = [calls EXCEPT ![i] =
                 FinishTest([c EXCEPT !.rCreate =
                     IF data.kind = "object" THEN "ok" ELSE "fail"])]
    /\ UNCHANGED <<apiVersionChecked, apiCompatible, lastHealthCheck,
                   everHealthOK, lastVerdictKind>>
    /\ UNCHANGED <<aggVars, codecVars>>

\* ------------------------------------------------------------------ caller
\* the caller has consumed a settled promise; the slot is free for a new call
Forget(i) ==
    /\ calls[i].pc = "done"
    /\ calls' = [calls EXCEPT ![i] = IdleCall]
    /\ UNCHANGED <<apiVersionChecked, apiCompatible, lastHealthCheck,
                   everHealthOK, lastVerdictKind>>
    /\ UNCHANGED <<aggVars, codecVars>>

\* the caller gives up an invocation that waits for the network (the request
\* never settles for it, as after a navigation): its continuation never runs
Abandon(i) ==
    /\ calls[i].pc \in {"h_fetch", "h_json", "c_fetch", "c_json", "t_list_fetch",
                        "t_list_json", "t_post_fetch", "t_post_json", "t_post_text"}
    /\ calls' = [calls EXCEPT ![i] = IdleCall]
    /\ lastVerdictKind' = IF calls[i].pc \in {"h_fetch", "h_json"}
                          THEN "ABANDONED" ELSE lastVerdictKind
    /\ UNCHANGED <<apiVersionChecked, apiCompatible, lastHealthCheck, everHealthOK>>
    /\ UNCHANGED <<aggVars, codecVars>>

Next ==
    \E i \in Calls :
        \/ CallCheckApiHealth(i)
        \/ HealthFetchSettles(i)
        \/ HealthJsonSettles(i)
        \/ CallCreateBlockchain(i)
        \/ CreateAfterCheck(i)
        \/ CreatePostSettles(i)
        \/ CreateJsonSettles(i)
        \/ CallTestApiEndpoints(i)
        \/ TestAfterCheck(i)
        \/ TestListSettles(i)
        \/ TestListJsonSettles(i)
        \/ TestPostSettles(i)
        \/ TestPostTextSettles(i)
        \/ TestPostJsonSettles(i)
        \/ Forget(i)
        \/ Abandon(i)

Spec == Init /\ [][Next]_vars

\* the step of invocation i that follows the settling of the request or of
\* the promise it awaits
Settles(i) ==
    \/ HealthFetchSettles(i)
    \/ HealthJsonSettles(i)
    \/ CreateAfterCheck(i)
    \/ CreatePostSettles(i)
    \/ CreateJsonSettles(i)
    \/ TestAfterCheck(i)
    \/ TestListSettles(i)
    \/ TestListJsonSettles(i)
    \/ TestPostSettles(i)
    \/ TestPostTextSettles(i)
    \/ TestPostJsonSettles(i)

\* the client when every request settles: no invocation is given up, and
\* the continuation of a settled await is run
LiveNext ==
    \E i \in Calls :
        \/ CallCheckApiHealth(i)
        \/ HealthFetchSettles(i)
        \/ HealthJsonSettles(i)
        \/ CallCreateBlockchain(i)
        \/ CreateAfterCheck(i)
        \/ CreatePostSettles(i)
        \/ CreateJsonSettles(i)
        \/ CallTestApiEndpoints(i)
        \/ TestAfterCheck(i)
        \/ TestListSettles(i)
        \/ TestListJsonSettles(i)
        \/ TestPostSettles(i)
        \/ TestPostTextSettles(i)
        \/ TestPostJsonSettles(i)
        \/ Forget(i)

LiveSpec == Init /\ [][LiveNext]_vars /\ \A i \in Calls : WF_vars(Settles(i))

\* ------------------------------------------------------------- DLOID codec
\* A raw record is a sequence of characters.
DigitChars == <<"0", "1", "2", "3", "4", "5", "6", "7", "8", "9">>

IsDigit(ch) == \E d \in 1..10 : DigitChars[d] = ch

DigitValue(ch) == (CHOOSE d \in 1..10 : DigitChars[d] = ch) - 1

\* spec section 3: a record has 25 characters, the quantity at offsets 0-10,
\* four flags, the rating at offsets 14-23, two flags
RecordLength == 25
QuantityWidth == 10
RatingFirst == 15
RatingWidth == 9

AllDigits(s) == \A k \in 1..Len(s) : IsDigit(s[k])

\* the unsigned integer a digit sequence denotes, leading zeros included
RECURSIVE ParseDigits(_)
ParseDigits(s) ==
    IF s = <<>> THEN 0
    ELSE ParseDigits(SubSeq(s, 1, Len(s) - 1)) * 10 + DigitValue(s[Len(s)])

\* faulty variant: no length check, the fields are read where they should be
decodeAnyLength(raw) ==
    IF Len(raw) < RatingFirst + RatingWidth - 1
    THEN [ok |-> FALSE, reason |-> "length", quantity |-> 0, rating |-> 0, flags |-> <<>>]
    ELSE LET q == SubSeq(raw, 1, QuantityWidth)
             r == SubSeq(raw, RatingFirst, RatingFirst + RatingWidth - 1)
         IN  IF ~AllDigits(q) \/ ~AllDigits(r)
             THEN [ok |-> FALSE, reason |-> "digits", quantity |-> 0, rating |-> 0,
                   flags |-> <<>>]
             ELSE [ok |-> TRUE, reason |-> "",
                   quantity |-> ParseDigits(q), rating |-> ParseDigits(r),
                   flags |-> SubSeq(raw, QuantityWidth + 1, RatingFirst - 1)
                             \o SubSeq(raw, RatingFirst + RatingWidth, Len(raw))]

\* spec section 4.1, decode: MalformedError when the length is not 25 or a
\* numeric range holds a non-digit; flag characters pass through unchecked
decode(raw) ==
    IF Len(raw) # RecordLength
    THEN [ok |-> FALSE, reason |-> "length", quantity |-> 0, rating |-> 0, flags |-> <<>>]
    ELSE LET q == SubSeq(raw, 1, QuantityWidth)
             r == SubSeq(raw, RatingFirst, RatingFirst + RatingWidth - 1)
         IN  IF ~AllDigits(q) \/ ~AllDigits(r)
             THEN [ok |-> FALSE, reason |-> "digits", quantity |-> 0, rating |-> 0,
                   flags |-> <<>>]
             ELSE [ok |-> TRUE, reason |-> "",
                   quantity |-> ParseDigits(q), rating |-> ParseDigits(r),
                   flags |-> SubSeq(raw, QuantityWidth + 1, RatingFirst - 1)
                             \o SubSeq(raw, RatingFirst + RatingWidth, RecordLength)]

\* PROFILE_PAGE_STATS.md:40-42, the three records of the extraction example
Blockchain1 == <<"0", "0", "0", "0", "1", "0", "0", "0", "0", "0", "L", "N", "Y", "2", "0", "0", "0", "0", "1", "0", "0", "0", "0", "N", "P">>
Blockchain2 == <<"0", "0", "0", "0", "0", "5", "0", "0", "0", "0", "L", "Y", "Y", "1", "0", "0", "0", "0", "2", "0", "0", "0", "0", "Y", "M">>
Blockchain3 == <<"0", "0", "0", "0", "0", "2", "5", "0", "0", "0", "L", "N", "Y", "3", "0", "0", "0", "0", "1", "5", "0", "0", "0", "N", "P">>

\* spec section 7, the malformed record of the skip-and-continue example
BadRecord == <<"B", "A", "D">>

\* records one character short and one character long, whose first ten
\* characters are a valid quantity
ShortRecord == SubSeq(Blockchain1, 1, RecordLength - 1)
LongRecord == Blockchain1 \o <<"P">>

\* records of the right length with a letter in the quantity, in the rating
LetterInQuantity == [Blockchain2 EXCEPT ![4] = "X"]
LetterInRating == [Blockchain3 EXCEPT ![RatingFirst + 2] = "X"]

RawRecords ==
    {Blockchain1, Blockchain2, Blockchain3, BadRecord, ShortRecord, LongRecord,
     LetterInQuantity, LetterInRating}

\* the longest input sequence aggregate() is run on
MaxRecords == 4

Inputs == UNION {[1..n -> RawRecords] : n \in 0..MaxRecords}

\* -------------------------------------------------------- stats aggregator
\* faulty variant: a malformed record throws away what was summed so far
AccumulateResets(acc, at, result) ==
    IF result.ok
    THEN [acc EXCEPT !.total = @ + result.quantity]
    ELSE [acc EXCEPT !.total = 0, !.skipped = @ + 1,
                     !.errors = Append(@, [index |-> at, reason |-> result.reason])]

\* spec section 4.2: what one decode result does to the result under
\* construction; at is the record's index in the input (from 0)
Accumulate(acc, at, result) ==
    IF result.ok
    THEN [acc EXCEPT !.total = @ + result.quantity]
    ELSE [acc EXCEPT !.skipped = @ + 1,
                     !.errors = Append(@, [index |-> at, reason |-> result.reason])]

\* aggregate(records) is called
AggInit ==
    /\ apiVersionChecked = FALSE
    /\ apiCompatible = FALSE
    /\ lastHealthCheck = JsNull
    /\ calls = [i \in Calls |-> IdleCall]
    /\ everHealthOK = FALSE
    /\ lastVerdictKind = "none"
    /\ records \in Inputs
    /\ index = 0
    /\ total = 0
    /\ skipped = 0
    /\ errors = <<>>
    /\ returned = FALSE
    /\ fields = NoFields
    /\ encoded = NotEncoded
    /\ decoded = NotDecoded

\* one turn of the loop over the records
AggregateRecord ==
    /\ ~returned
    /\ index < Len(records)
    /\ LET acc == Accumulate([total |-> total, skipped |-> skipped, errors |-> errors],
                             index, decode(records[index + 1]))
       IN  /\ total' = acc.total
           /\ skipped' = acc.skipped
           /\ errors' = acc.errors
    /\ index' = index + 1
    /\ UNCHANGED <<records, returned>>
    /\ UNCHANGED <<clientVars, codecVars>>

\* the loop is over: the result is returned
AggregateReturn ==
    /\ ~returned
    /\ index = Len(records)
    /\ returned' = TRUE
    /\ UNCHANGED <<records, index, total, skipped, errors>>
    /\ UNCHANGED <<clientVars, codecVars>>

AggNext ==
    \/ AggregateRecord
    \/ AggregateReturn

SpecAgg == AggInit /\ [][AggNext]_vars

\* ------------------------------------------------------------ DLOID encode
\* the decimal digits of a natural number, without leading zeros
RECURSIVE DecimalDigits(_)
DecimalDigits(n) ==
    IF n < 10 THEN <<DigitChars[n + 1]>>
    ELSE DecimalDigits(n \div 10) \o <<DigitChars[(n % 10) + 1]>>

\* padStart(width, '0')
RECURSIVE ZeroPad(_, _)
ZeroPad(s, width) == IF Len(s) >= width THEN s ELSE ZeroPad(<<"0">> \o s, width)

\* the value does not fit a field of width digits, or is negative
OutOfRange(n, width) == n < 0 \/ Len(DecimalDigits(n)) > width

\* faulty variant: the numbers are written without zero-padding
encodeUnpadded(f) ==
    IF OutOfRange(f.quantity, QuantityWidth) \/ OutOfRange(f.rating, RatingWidth)
    THEN [ok |-> FALSE, error |-> "RangeError", raw |-> <<>>]
    ELSE [ok |-> TRUE, error |-> "",
          raw |-> DecimalDigits(f.quantity) \o SubSeq(f.flags, 1, 4)
                  \o DecimalDigits(f.rating) \o SubSeq(f.flags, 5, 6)]

\* spec section 4.1, encode: quantity zero-padded to 10 digits, the four
\* flags of offsets 10-14, rating zero-padded to 9 digits, the two flags of
\* offsets 23-25; RangeError when a number is negative or too wide
encode(f) ==
    IF OutOfRange(f.quantity, QuantityWidth) \/ OutOfRange(f.rating, RatingWidth)
    THEN [ok |-> FALSE, error |-> "RangeError", raw |-> <<>>]
    ELSE [ok |-> TRUE, error |-> "",
          raw |-> ZeroPad(DecimalDigits(f.quantity), QuantityWidth) \o SubSeq(f.flags, 1, 4)
                  \o ZeroPad(DecimalDigits(f.rating), RatingWidth) \o SubSeq(f.flags, 5, 6)]

\* the DloidFields value a successful decode stands for
FieldsOf(result) ==
    [quantity |-> result.quantity, rating |-> result.rating, flags |-> result.flags]

\* quantities and ratings handed to encode: negative, zero, the values of
\* PROFILE_PAGE_STATS.md:40-42, the widest the fields hold (as far as the
\* model's integers reach) and a rating one digit too wide
Quantities == {-1, 0, 25000, 50000, 100000, 2147483647}
Ratings == {-1, 0, 10000, 15000, 999999999, 1000000000}

\* the six flag characters: those of PROFILE_PAGE_STATS.md:40-42, and
\* characters no enum lists (the codec passes them through)
FlagSets ==
    {<<"L", "N", "Y", "2", "N", "P">>, <<"L", "Y", "Y", "1", "Y", "M">>,
     <<"L", "N", "Y", "3", "N", "P">>, <<"?", "0", "x", "9", " ", "0">>}

FieldValues ==
    {[quantity |-> q, rating |-> r, flags |-> fl] :
        q \in Quantities, r \in Ratings, fl \in FlagSets}

\* a DloidFields value is about to be encoded
CodecInit ==
    /\ apiVersionChecked = FALSE
    /\ apiCompatible = FALSE
    /\ lastHealthCheck = JsNull
    /\ calls = [i \in Calls |-> IdleCall]
    /\ everHealthOK = FALSE
    /\ lastVerdictKind = "none"
    /\ records = <<>>
    /\ index = 0
    /\ total = 0
    /\ skipped = 0
    /\ errors = <<>>
    /\ returned = FALSE
    /\ fields \in FieldValues
    /\ encoded = NotEncoded
    /\ decoded = NotDecoded

\* encode(fields) is called
Encode ==
    /\ encoded = NotEncoded
    /\ encoded' = encode(fields)
    /\ UNCHANGED <<fields, decoded>>
    /\ UNCHANGED <<clientVars, aggVars>>

\* decode is called on the record encode gave
Decode ==
    /\ encoded.ok
    /\ decoded = NotDecoded
    /\ decoded' = decode(encoded.raw)
    /\ UNCHANGED <<fields, encoded>>
    /\ UNCHANGED <<clientVars, aggVars>>

CodecNext ==
    \/ Encode
    \/ Decode

SpecCodec == CodecInit /\ [][CodecNext]_vars

\* ==================================================================== claims
\* shorthands over an invocation record
Done(c) == c.pc = "done"

ProbeFailed(c) == c.hstatus # NotDispatched /\ ~ResponseOk(c.hstatus)

IsUnavailable(v) == ~v.success /\ ~v.compatible /\ v.message # ""

\* C1: every POST /api/blockchains that createBlockchain has sent was sent
\* after a health probe on the instance had completed with success:true; a
\* createBlockchain whose probe is still under way (or whose verdict has not
\* been handled yet) has sent no POST, one that probed and posted got its
\* verdict first, and one that posted without probing found the instance
\* checked.
PostPrecededByHealthCheck ==
    \A i \in Calls :
        LET c == calls[i]
        IN  c.op = "createBlockchain" =>
              /\ (c.posts > 0 => everHealthOK)
              /\ (c.pc \in {"h_fetch", "h_json", "c_checked"} => c.posts = 0)
              /\ (c.posts > 0 /\ c.probes > 0 =>
                    c.hdone /\ c.inlineKind \in {"COMPATIBLE", "INCOMPATIBLE_WARNING"})
              /\ (c.posts > 0 /\ c.probes = 0 => apiVersionChecked)

\* C1 witness: a createBlockchain entered on an unchecked instance has run
\* its inline check and then sent its POST
PostSentAfterInlineCheck ==
    \E i \in Calls :
        /\ calls[i].op = "createBlockchain"
        /\ calls[i].probes = 1 /\ calls[i].hdone
        /\ calls[i].posts = 1

\* C2: a createBlockchain whose inline check returned success:false is
\* rejected with an error and has sent no POST.
UnavailableBlocksCreate ==
    \A i \in Calls :
        LET c == calls[i]
        IN  c.op = "createBlockchain" /\ c.inlineKind = "UNAVAILABLE" =>
              /\ Done(c) /\ c.outcome = "rejected"
              /\ c.error = UnavailableError
              /\ ~c.verdict.success
              /\ c.posts = 0

\* C2 witness: such a rejected call
CreateRejectedAsUnavailable ==
    \E i \in Calls :
        /\ calls[i].op = "createBlockchain" /\ Done(calls[i])
        /\ calls[i].inlineKind = "UNAVAILABLE"
        /\ calls[i].outcome = "rejected"
        /\ calls[i].posts = 0

\* how createBlockchain must end given the POST's response only
PostDecides(c) ==
    IF ResponseOk(c.pstatus) /\ c.pbody.kind \in {"object", "null"}
    THEN c.outcome = "fulfilled"
    ELSE c.outcome = "rejected"

\* C3: after an inline check that returned INCOMPATIBLE_WARNING the POST is
\* sent all the same, and the call ends as the POST's response decides.
WarningDoesNotBlockCreate ==
    \A i \in Calls :
        LET c == calls[i]
        IN  c.op = "createBlockchain" /\ c.inlineKind = "INCOMPATIBLE_WARNING" =>
              /\ c.posts = 1
              /\ c.pc \in {"c_fetch", "c_json", "done"}
              /\ (Done(c) => c.pstatus # NotDispatched /\ PostDecides(c))

\* C3 witness: a call that was warned and fulfilled by a 2xx POST
CreateFulfilledAfterWarning ==
    \E i \in Calls :
        /\ calls[i].op = "createBlockchain" /\ Done(calls[i])
        /\ calls[i].inlineKind = "INCOMPATIBLE_WARNING"
        /\ calls[i].posts = 1 /\ calls[i].outcome = "fulfilled"

\* C4: createBlockchain with valid DLOID fields and an absent owner id
\* (null, undefined or '') is rejected with the validation error and has sent
\* no request of any kind.
MissingOwnerFailsBeforeNetwork ==
    \A i \in Calls :
        LET c == calls[i]
        IN  c.op = "createBlockchain" /\ c.dloidOk /\ c.userUuid \in {"null", "empty"} =>
              /\ Done(c) /\ c.outcome = "rejected" /\ c.error = ValidationError
              /\ c.probes = 0 /\ c.posts = 0 /\ c.lists = 0

\* C4 witness: the two callers have been rejected for a null and for an empty
\* owner id, on an instance that is still unchecked
MissingOwnerRejected ==
    /\ ~apiVersionChecked
    /\ \E i, j \in Calls :
        /\ calls[i].op = "createBlockchain" /\ calls[i].dloidOk
        /\ calls[i].userUuid = "null" /\ calls[i].outcome = "rejected"
        /\ calls[j].op = "createBlockchain" /\ calls[j].dloidOk
        /\ calls[j].userUuid = "empty" /\ calls[j].outcome = "rejected"

\* C5: when the probe's fetch rejects or its response is not 2xx,
\* checkApiHealth returns (in that same step) a verdict with success:false,
\* compatible:false and a message.
ProbeFailureGivesUnavailable ==
    \A i \in Calls :
        LET c == calls[i]
        IN  ProbeFailed(c) => c.hdone /\ IsUnavailable(c.verdict)

\* C5 witness: one probe failed at transport level, the other with a 5xx
\* status, and both verdicts are UNAVAILABLE
BothProbeFailuresSeen ==
    \E i, j \in Calls :
        /\ calls[i].hstatus = TransportFailure /\ calls[i].hdone
        /\ ~calls[i].verdict.success
        /\ calls[j].hstatus = 500 /\ calls[j].hdone
        /\ ~calls[j].verdict.success

\* the probe's response carried a version field
CarriesVersion(c) == c.hdone /\ c.hbody.kind = "object" /\ c.hbody.hasVersion

\* exact-string membership in the configured compatibility set
Listed(version) == version \in {compatibleVersions[k] : k \in 1..Len(compatibleVersions)}

\* C6: whenever the probe succeeded with a response that carries a version
\* field, the verdict is decided by membership of that value in the
\* compatibility set, for every value: listed gives success:true,
\* compatible:true; not listed gives success:true, compatible:false,
\* warning:true.
VersionMembershipDecidesVerdict ==
    \A i \in Calls :
        LET c == calls[i]
        IN  CarriesVersion(c) =>
              IF Listed(c.hbody.version)
              THEN c.verdict.success /\ c.verdict.compatible
              ELSE c.verdict.success /\ ~c.verdict.compatible /\ c.verdict.warning

\* C7: when response.json() of the probe resolves with an object that has no
\* version field, checkApiHealth returns success:true, compatible:true with
\* the message noting the assumption, and the instance is checked and
\* compatible at that moment.
NoVersionAssumedCompatible ==
    [][\A i \in Calls :
          ( /\ calls[i].pc = "h_json"
            /\ calls'[i].pc # "h_json"
            /\ calls'[i].hbody.kind = "object"
            /\ ~calls'[i].hbody.hasVersion )
          => ( /\ calls'[i].hdone
               /\ calls'[i].verdict.success
               /\ calls'[i].verdict.compatible
               /\ ~calls'[i].verdict.warning
               /\ calls'[i].verdict.message = "API health OK (version unknown, assuming compatible)"
               /\ apiVersionChecked'
               /\ apiCompatible' )]_vars

\* C7 witness: an explicit check has completed on a response without version
AssumedCompatibleReturned ==
    \E i \in Calls :
        /\ calls[i].op = "checkApiHealth" /\ Done(calls[i])
        /\ calls[i].hbody.kind = "object" /\ ~calls[i].hbody.hasVersion
        /\ calls[i].verdict.compatible
        /\ apiVersionChecked /\ apiCompatible

\* MAJOR of a version string "a.b.c"
Major(version) == version[1]

\* C8: a service version with the client's MAJOR number is classified
\* compatible, one with another MAJOR number is classified not compatible.
SameMajorIsCompatible ==
    \A i \in Calls :
        LET c == calls[i]
        IN  CarriesVersion(c) /\ Len(c.hbody.version) = 3 =>
              (c.verdict.compatible <=> Major(c.hbody.version) = Major(expectedApiVersion))

\* C9: checkApiHealth never throws: every run of it that has ended has
\* returned a verdict, the explicit call is always fulfilled, and a probe
\* that failed at transport level gives success:false, compatible:false
\* whatever the checks before it returned.
HealthCheckNeverThrows ==
    \A i \in Calls :
        LET c == calls[i]
        IN  /\ (c.probes > 0 /\ c.pc \notin {"h_fetch", "h_json"} => c.hdone)
            /\ (c.op = "checkApiHealth" /\ Done(c) => c.outcome = "fulfilled")
            /\ (c.hstatus = TransportFailure => ~c.verdict.success /\ ~c.verdict.compatible)

\* C9 witness: two explicit checks against an unreachable service, the second
\* one started after an UNAVAILABLE verdict had been returned, both fulfilled
\* with UNAVAILABLE
SecondCheckAlsoUnavailable ==
    \E i, j \in Calls :
        /\ i # j
        /\ calls[i].op = "checkApiHealth" /\ Done(calls[i])
        /\ calls[i].hstatus = TransportFailure /\ IsUnavailable(calls[i].verdict)
        /\ calls[j].op = "checkApiHealth" /\ Done(calls[j])
        /\ calls[j].prior = "UNAVAILABLE"
        /\ calls[j].hstatus = TransportFailure /\ IsUnavailable(calls[j].verdict)
        /\ calls[j].outcome = "fulfilled"

\* createBlockchain's POST failed: the fetch rejected or the status is not 2xx
RemoteCallFailed(c) ==
    c.op = "createBlockchain" /\ c.pstatus # NotDispatched /\ ~ResponseOk(c.pstatus)

\* the error object has a status field
HasStatusField(e) == "status" \in DOMAIN e

FulfilledOnlyAfter2xx ==
    \A i \in Calls :
        LET c == calls[i]
        IN  c.op = "createBlockchain" /\ Done(c) =>
              /\ c.outcome \in {"fulfilled", "rejected"}
              /\ (c.outcome = "fulfilled" => c.posts = 1 /\ ResponseOk(c.pstatus))
              /\ (c.posts = 0 \/ ~ResponseOk(c.pstatus) =>
                    c.outcome = "rejected" /\ c.error # NoErr)

\* C11 witness: one createBlockchain fulfilled by a 2xx answer, the other
\* rejected for a non-2xx answer
FulfilledAndRejectedSeen ==
    \E i, j \in Calls :
        /\ calls[i].op = "createBlockchain" /\ Done(calls[i])
        /\ calls[i].outcome = "fulfilled" /\ calls[i].pstatus = 200
        /\ calls[j].op = "createBlockchain" /\ Done(calls[j])
        /\ calls[j].outcome = "rejected" /\ calls[j].pstatus = 404

\* C12: an invocation of createBlockchain sends at most one POST, also when
\* that POST failed by transport error or non-2xx status.
AtMostOnePost ==
    \A i \in Calls :
        LET c == calls[i]
        IN  c.op = "createBlockchain" =>
              /\ c.posts <= 1
              /\ (RemoteCallFailed(c) => Done(c) /\ c.posts = 1)

\* C12 witness: a createBlockchain whose only POST failed at transport level
PostFailedOnce ==
    \E i \in Calls :
        /\ calls[i].op = "createBlockchain" /\ Done(calls[i])
        /\ calls[i].pstatus = TransportFailure
        /\ calls[i].posts = 1

\* C13: a new instance is unchecked, and once a health check has completed
\* with success:true no createBlockchain that is called afterwards sends a
\* health probe.
VerdictCachedForCreate ==
    /\ ~apiVersionChecked /\ ~apiCompatible
    /\ [][\A i \in Calls :
            ( /\ calls[i].pc = "idle"
              /\ calls'[i].op = "createBlockchain"
              /\ everHealthOK )
            => calls'[i].probes = 0]_vars

\* C13 witness: a createBlockchain called on a checked instance has sent its
\* POST without a probe
PostSentWithoutProbe ==
    \E i \in Calls :
        /\ calls[i].op = "createBlockchain"
        /\ everHealthOK
        /\ calls[i].probes = 0 /\ calls[i].posts = 1

\* the step is the one in which checkApiHealth returns to invocation i
HealthReturnsTo(i) ==
    calls[i].pc \in {"h_fetch", "h_json"} /\ calls'[i].hdone

\* the step is the one in which invocation i's probe is given up
ProbeAbandoned(i) ==
    calls[i].pc \in {"h_fetch", "h_json"} /\ calls'[i].pc = "idle"

\* C14: apiVersionChecked becomes true only in the step that completes a
\* probe answered 2xx with a parsed body and a success:true verdict; a check
\* that fails or is given up leaves an unchecked instance unchecked and not
\* compatible; and a createBlockchain (valid arguments) called on an unchecked
\* instance sends the probe, not the POST.
FailedCheckLeavesUnchecked ==
    [][/\ ( ~apiVersionChecked /\ apiVersionChecked' =>
              \E i \in Calls :
                  /\ calls[i].pc = "h_json" /\ calls'[i].hdone
                  /\ calls'[i].verdict.success
                  /\ ResponseOk(calls'[i].hstatus)
                  /\ calls'[i].hbody.kind = "object" )
       /\ \A i \in Calls :
            /\ ( /\ ~apiVersionChecked
                 /\ \/ HealthReturnsTo(i) /\ ~calls'[i].verdict.success
                    \/ ProbeAbandoned(i) )
               => ( ~apiVersionChecked' /\ ~apiCompatible' )
            /\ ( /\ ~apiVersionChecked
                 /\ calls[i].pc = "idle"
                 /\ calls'[i].op = "createBlockchain"
                 /\ calls'[i].dloidOk /\ calls'[i].userUuid = "valid" )
               => ( calls'[i].probes = 1 /\ calls'[i].posts = 0 )]_vars

\* C14 witness: on a still unchecked instance one createBlockchain has sent
\* its probe after a failed check, the other after a check that was given up
CheckRunAgainAfterFailure ==
    /\ ~apiVersionChecked
    /\ \E i, j \in Calls :
        /\ calls[i].op = "createBlockchain" /\ calls[i].probes = 1
        /\ calls[i].prior = "UNAVAILABLE"
        /\ calls[j].op = "createBlockchain" /\ calls[j].probes = 1
        /\ calls[j].prior = "ABANDONED"

\* C15: a createBlockchain that probed sends its POST only in the step that
\* handles its own success:true verdict, and the flags change only in a step
\* that completes a successful probe, which writes both of them from its own
\* verdict: they are what the probe that completed last wrote.
LastSuccessfulProbeWins ==
    [][/\ \A i \in Calls :
            /\ ( /\ calls[i].op = "createBlockchain"
                 /\ calls'[i].op = "createBlockchain"
                 /\ calls'[i].posts > calls[i].posts
                 /\ calls[i].probes = 1 )
               => ( calls[i].pc = "c_checked" /\ calls[i].verdict.success )
            /\ ( HealthReturnsTo(i) /\ calls'[i].verdict.success )
               => ( apiVersionChecked' /\ apiCompatible' = calls'[i].verdict.compatible )
       /\ ( <<apiVersionChecked, apiCompatible>>' # <<apiVersionChecked, apiCompatible>>
            => \E i \in Calls : HealthReturnsTo(i) /\ calls'[i].verdict.success )]_vars

\* C15 witness: two createBlockchain calls both probed and both posted, one
\* on a COMPATIBLE and one on an INCOMPATIBLE_WARNING verdict, and the flags
\* are those of the warning
BothProbedAndPosted ==
    \E i, j \in Calls :
        /\ calls[i].op = "createBlockchain" /\ calls[i].probes = 1 /\ calls[i].posts = 1
        /\ calls[i].inlineKind = "COMPATIBLE"
        /\ calls[j].op = "createBlockchain" /\ calls[j].probes = 1 /\ calls[j].posts = 1
        /\ calls[j].inlineKind = "INCOMPATIBLE_WARNING"
        /\ apiVersionChecked /\ ~apiCompatible

\* C16 as stated: when a check completes, the cached flags correspond to the
\* verdict it returned, so after an UNAVAILABLE verdict the instance is
\* neither checked nor compatible.
CacheFollowsEveryVerdict ==
    [][\A i \in Calls :
          HealthReturnsTo(i) =>
            IF calls'[i].verdict.success
            THEN apiVersionChecked' /\ apiCompatible' = calls'[i].verdict.compatible
            ELSE ~apiVersionChecked' /\ ~apiCompatible']_vars

\* C16 amended: a check that completes with success:true overwrites the
\* cached flags with its verdict; a check that returns UNAVAILABLE does not
\* touch them, so they stay as the earlier checks left them.
CacheFollowsSuccessfulVerdicts ==
    [][\A i \in Calls :
          HealthReturnsTo(i) =>
            IF calls'[i].verdict.success
            THEN apiVersionChecked' /\ apiCompatible' = calls'[i].verdict.compatible
            ELSE UNCHANGED <<apiVersionChecked, apiCompatible>>]_vars

\* C16 witness: an explicit check started after a COMPATIBLE verdict has
\* returned UNAVAILABLE and the instance is still checked and compatible
StaleCacheAfterUnavailable ==
    \E i \in Calls :
        /\ calls[i].op = "checkApiHealth" /\ Done(calls[i])
        /\ calls[i].prior = "COMPATIBLE"
        /\ ~calls[i].verdict.success
        /\ apiVersionChecked /\ apiCompatible

\* the compatibility a parsed health response stands for
ResponseCompatible(healthData) ==
    IF healthData.hasVersion /\ healthData.version # <<>>
    THEN Listed(healthData.version)
    ELSE TRUE

\* C17: an explicit checkApiHealth sends exactly one probe whatever the
\* cached state, and when its probe succeeds the cached compatibility
\* becomes that of the response, whatever it was.
ExplicitCheckForcesProbe ==
    [][\A i \in Calls :
          /\ calls'[i].op = "checkApiHealth" => calls'[i].probes = 1
          /\ ( calls[i].pc = "idle" /\ calls'[i].op = "checkApiHealth" )
             => calls'[i].pc = "h_fetch"
          /\ ( /\ calls[i].op = "checkApiHealth"
               /\ HealthReturnsTo(i)
               /\ calls'[i].verdict.success )
             => ( /\ apiVersionChecked'
                  /\ apiCompatible' = ResponseCompatible(calls'[i].hbody) )]_vars

\* C17 witness: one explicit check turned a warning into compatible, the
\* other turned compatible into a warning
CacheReplacedBothWays ==
    \E i, j \in Calls :
        /\ calls[i].op = "checkApiHealth" /\ Done(calls[i])
        /\ calls[i].prior = "INCOMPATIBLE_WARNING"
        /\ calls[i].verdict.success /\ calls[i].verdict.compatible
        /\ calls[j].op = "checkApiHealth" /\ Done(calls[j])
        /\ calls[j].prior = "COMPATIBLE"
        /\ calls[j].verdict.success /\ ~calls[j].verdict.compatible
        /\ ~apiCompatible

\* the probes of a testApiEndpoints run whose result entry has success:true
SucceededProbes(c) ==
    {k \in {"health", "blockchains", "createBlockchain"} :
        \/ k = "health" /\ c.rHealth \in {"COMPATIBLE", "INCOMPATIBLE_WARNING"}
        \/ k = "blockchains" /\ c.rList = "ok"
        \/ k = "createBlockchain" /\ c.rCreate = "ok"}

\* C18: a settled testApiEndpoints has overall 'success' when its three
\* probes succeeded, 'warning' when exactly two did and 'failure' when fewer
\* did, an INCOMPATIBLE_WARNING health verdict counting as a success.
OverallCountsSuccesses ==
    \A i \in Calls :
        LET c == calls[i]
            n == Cardinality(SucceededProbes(c))
        IN  c.op = "testApiEndpoints" /\ Done(c) =>
              /\ c.outcome = "fulfilled"
              /\ n = 3 => c.overall = "success"
              /\ n = 2 => c.overall = "warning"
              /\ n < 2 => c.overall = "failure"

\* C18 witness: one run is a 'success' with a health verdict that carries the
\* incompatibility warning, another is a 'warning' with exactly two successes
WarningVerdictCountedAsSuccess ==
    \E i, j \in Calls :
        /\ calls[i].op = "testApiEndpoints" /\ Done(calls[i])
        /\ calls[i].rHealth = "INCOMPATIBLE_WARNING"
        /\ calls[i].overall = "success"
        /\ calls[j].op = "testApiEndpoints" /\ Done(calls[j])
        /\ Cardinality(SucceededProbes(calls[j])) = 2
        /\ calls[j].overall = "warning"

\* C19 as stated: no step of a testApiEndpoints run changes apiVersionChecked,
\* apiCompatible or lastHealthCheck.
TestLeavesClientStateAlone ==
    [][\A i \in Calls :
          calls[i].op = "testApiEndpoints" /\ calls'[i] # calls[i]
          => UNCHANGED <<apiVersionChecked, apiCompatible, lastHealthCheck>>]_vars

\* a record the spec calls well-formed: 25 characters, digits at offsets
\* 0-10 and 14-23
WellFormedRecord(raw) ==
    /\ Len(raw) = 25
    /\ \A k \in (1..10) \cup (15..23) : raw[k] \in {"0", "1", "2", "3", "4", "5", "6", "7", "8", "9"}

\* 10 to the power n
RECURSIVE TenTo(_)
TenTo(n) == IF n = 0 THEN 1 ELSE 10 * TenTo(n - 1)

\* the sum of digit times place value over a digit sequence
RECURSIVE PlaceValueSum(_, _)
PlaceValueSum(s, k) ==
    IF k > Len(s) THEN 0
    ELSE DigitValue(s[k]) * TenTo(Len(s) - k) + PlaceValueSum(s, k + 1)

\* the sum of the quantity fields of the well-formed records among the
\* first n of the input
RECURSIVE QuantitySum(_)
QuantitySum(n) ==
    IF n = 0 THEN 0
    ELSE QuantitySum(n - 1)
         + (IF WellFormedRecord(records[n])
            THEN PlaceValueSum(SubSeq(records[n], 1, 10), 1) ELSE 0)

\* the positions (from 1) of the malformed records among the first n
MalformedAmong(n) == {k \in 1..n : ~WellFormedRecord(records[k])}

\* C20: at every point of a run of aggregate, total is the sum of the
\* quantity fields of the well-formed records handled so far, skipped is the
\* number of malformed ones and errors has exactly one entry for each of
\* them; the run returns only when every record was handled; a malformed
\* record leaves total as it is and adds one skip and one entry; and the
\* quantities 100000, 50000, 25000 total 175000 with or without a fourth,
\* malformed record.
SkipAndContinue ==
    /\ [](/\ total = QuantitySum(index)
          /\ skipped = Cardinality(MalformedAmong(index))
          /\ Len(errors) = skipped
          /\ \A k \in MalformedAmong(index) :
                Cardinality({e \in 1..Len(errors) : errors[e].index = k - 1}) = 1
          /\ returned => index = Len(records)
          /\ ( /\ returned
               /\ Len(records) \in {3, 4}
               /\ SubSeq(records, 1, 3) = <<Blockchain1, Blockchain2, Blockchain3>>
               /\ Len(records) = 4 => ~WellFormedRecord(records[4]) )
             => ( total = 175000 /\ skipped = Len(records) - 3 ))
    /\ [][( index' = index + 1 /\ ~WellFormedRecord(records[index + 1]) )
          => ( /\ total' = total
               /\ skipped' = skipped + 1
               /\ Len(errors') = Len(errors) + 1 )]_vars

\* C20 witness: the three example records followed by a malformed one have
\* been aggregated to 175000 with one skip
ExampleWithMalformedFourth ==
    /\ returned
    /\ records = <<Blockchain1, Blockchain2, Blockchain3, BadRecord>>
    /\ total = 175000
    /\ skipped = 1
    /\ errors = <<[index |-> 3, reason |-> "length"]>>

\* a DloidFields value the round-trip law covers (as far as the model's
\* integers reach below 10^10)
WellFormedFields(f) ==
    /\ f.quantity >= 0
    /\ f.rating >= 0 /\ f.rating < 1000000000
    /\ Len(f.flags) = 6

\* C21: encode accepts every well-formed DloidFields value and gives a
\* record of 25 characters, and decoding that record gives the value back.
CodecRoundTrip ==
    /\ ( encoded # NotEncoded =>
           ( encoded.ok <=> WellFormedFields(fields) ) )
    /\ ( encoded.ok => Len(encoded.raw) = 25 )
    /\ ( decoded # NotDecoded =>
           ( decoded.ok /\ FieldsOf(decoded) = fields ) )

\* C21 witness: a ten-digit quantity and a zero rating, which needs all its
\* padding, have come back from the round trip
WideQuantityRoundTripped ==
    /\ decoded.ok
    /\ fields.quantity = 2147483647
    /\ fields.rating = 0
    /\ decoded.quantity = 2147483647

\* the records of the input that are one character short or long
OffByOneLength(raw) == Len(raw) \in {24, 26}

\* C22: decode rejects every record of 24 or 26 characters, also one whose
\* numeric ranges hold digits only, and the turn of aggregate that handles
\* such a record leaves total as it is and counts one skip.
LengthBoundaryIsMalformed ==
    /\ [](\A k \in 1..Len(records) :
             OffByOneLength(records[k]) => ~decode(records[k]).ok)
    /\ [][( index' = index + 1 /\ OffByOneLength(records[index + 1]) )
          => ( /\ total' = total
               /\ skipped' = skipped + 1
               /\ errors' = Append(errors, [index |-> index, reason |-> "length"]) )]_vars

\* C22 witness: a 24-character and a 26-character record that both start
\* with the quantity 0000100000 were aggregated with one well-formed record,
\* and only that one counts
OffByOneRecordsSkipped ==
    /\ returned
    /\ records = <<ShortRecord, Blockchain2, LongRecord>>
    /\ AllDigits(SubSeq(ShortRecord, 1, 10)) /\ AllDigits(SubSeq(LongRecord, 1, 10))
    /\ total = 50000
    /\ skipped = 2

\* C23 as stated: a check whose probe was answered 2xx never returns a
\* verdict with success:false, whatever the body.
OnlyTransportFailureIsUnavailable ==
    [][\A i \in Calls :
          HealthReturnsTo(i) /\ ResponseOk(calls'[i].hstatus)
          => calls'[i].verdict.success]_vars

\* C24: testApiEndpoints sends each request once and in the order health
\* probe, GET /api/blockchains, POST /api/blockchains; the GET is sent in the
\* step that takes the health verdict, the POST in the step in which the GET
\* probe ends, whatever the two gave; and a settled run has sent all three.
TestProbesInOrder ==
    [][\A i \in Calls :
          LET c == calls[i]
              d == calls'[i]
          IN  d.op = "testApiEndpoints" =>
                /\ d.probes <= 1 /\ d.lists <= d.probes /\ d.posts <= d.lists
                /\ d.lists > c.lists => ( c.pc = "t_checked" /\ c.hdone )
                /\ d.posts > c.posts =>
                     ( c.pc \in {"t_list_fetch", "t_list_json"} /\ d.rList # "null" )
                /\ Done(d) =>
                     ( d.probes = 1 /\ d.lists = 1 /\ d.posts = 1 /\ d.rCreate # "null" )]_vars

\* C24 witness: the health probe and the list probe both failed and the
\* create POST was sent all the same, and succeeded
PostSentAfterFailedProbes ==
    \E i \in Calls :
        /\ calls[i].op = "testApiEndpoints" /\ Done(calls[i])
        /\ calls[i].rHealth = "UNAVAILABLE"
        /\ calls[i].rList = "fail"
        /\ calls[i].posts = 1
        /\ calls[i].rCreate = "ok"

\* C25: a settled testApiEndpoints is fulfilled, never rejected; its overall
\* is 'success', 'warning' or 'failure' and none of its three entries is null.
TestNeverRejects ==
    \A i \in Calls :
        LET c == calls[i]
        IN  c.op = "testApiEndpoints" /\ Done(c) =>
              /\ c.outcome = "fulfilled"
              /\ c.overall \in {"success", "warning", "failure"}
              /\ c.rHealth # "null"
              /\ c.rList # "null"
              /\ c.rCreate # "null"

\* C25 witness: one run in which every probe failed and one in which every
\* probe succeeded have both been fulfilled
TestFulfilledAtBothExtremes ==
    \E i, j \in Calls :
        /\ calls[i].op = "testApiEndpoints" /\ calls[i].outcome = "fulfilled"
        /\ SucceededProbes(calls[i]) = {}
        /\ calls[i].overall = "failure"
        /\ calls[j].op = "testApiEndpoints" /\ calls[j].outcome = "fulfilled"
        /\ Cardinality(SucceededProbes(calls[j])) = 3
        /\ calls[j].overall = "success"

\* C26: in every state apiCompatible implies apiVersionChecked, and no step
\* of any operation takes apiVersionChecked from true back to false.
CheckedIsMonotone ==
    /\ [](apiCompatible => apiVersionChecked)
    /\ [][apiVersionChecked => apiVersionChecked']_vars

\* C26 witness: the instance is still checked after a check that came back
\* UNAVAILABLE and a createBlockchain whose POST failed
StillCheckedAfterFailures ==
    /\ apiVersionChecked
    /\ lastVerdictKind = "UNAVAILABLE"
    /\ \E i \in Calls :
        /\ calls[i].op = "createBlockchain"
        /\ RemoteCallFailed(calls[i])

\* C27 as stated: the step in which a check returns success:false changes
\* none of apiVersionChecked, apiCompatible and lastHealthCheck.
FailedCheckChangesNothing ==
    [][\A i \in Calls :
          HealthReturnsTo(i) /\ ~calls'[i].verdict.success
          => UNCHANGED <<apiVersionChecked, apiCompatible, lastHealthCheck>>]_vars

\* C28: a createBlockchain called without an owner id (null or empty) is
\* rejected in the step of the call with the validation error; it sends no
\* request and changes none of apiVersionChecked, apiCompatible and
\* lastHealthCheck; and a valid createBlockchain called while that rejected
\* call stands on a still unchecked instance sends the probe.
MissingOwnerChangesNothing ==
    [][\A i \in Calls :
          LET d == calls'[i]
          IN  /\ ( /\ calls[i].pc = "idle" /\ d.op = "createBlockchain"
                   /\ d.dloidOk /\ d.userUuid \in {"null", "empty"} )
                 => ( /\ d.outcome = "rejected" /\ d.error = ValidationError
                      /\ d.probes = 0 /\ d.posts = 0
                      /\ UNCHANGED <<apiVersionChecked, apiCompatible, lastHealthCheck>> )
              /\ ( /\ calls[i].pc = "idle" /\ d.op = "createBlockchain"
                   /\ d.dloidOk /\ d.userUuid = "valid"
                   /\ ~apiVersionChecked
                   /\ \E j \in Calls : calls[j].error = ValidationError )
                 => ( d.pc = "h_fetch" /\ d.probes = 1 /\ d.posts = 0 )]_vars

\* C28 witness: on an instance no check has ever returned to, one call
\* stands rejected for its missing owner id and a valid call has sent the probe
ProbeSentAfterOwnerRejection ==
    \E i, j \in Calls :
        /\ calls[j].op = "createBlockchain" /\ calls[j].error = ValidationError
        /\ calls[j].userUuid = "empty"
        /\ calls[i].op = "createBlockchain" /\ calls[i].pc = "h_fetch"
        /\ calls[i].probes = 1 /\ calls[i].prior = "none"
        /\ ~apiVersionChecked /\ lastHealthCheck = JsNull

\* C29: every verdict checkApiHealth returns has compatible only with
\* success and warning exactly with success and not compatible, and when it
\* has success the instance's apiCompatible equals its compatible in the
\* state the verdict is returned in.
VerdictShape ==
    [][\A i \in Calls :
          LET v == calls'[i].verdict
          IN  HealthReturnsTo(i) =>
                /\ v.compatible => v.success
                /\ v.warning <=> ( v.success /\ ~v.compatible )
                /\ v.success => ( apiCompatible' = v.compatible )]_vars

\* C29 witness: explicit checks have returned a warning verdict and an
\* UNAVAILABLE verdict
WarningAndUnavailableReturned ==
    \E i, j \in Calls :
        /\ calls[i].op = "checkApiHealth" /\ Done(calls[i])
        /\ calls[i].verdict.warning /\ ~apiCompatible
        /\ calls[j].op = "checkApiHealth" /\ Done(calls[j])
        /\ ~calls[j].verdict.success /\ ~calls[j].verdict.warning

\* the requests an invocation has sent
Requests(c) == c.probes + c.lists + c.posts

\* C30: when every request settles, every invocation that was started
\* settles, and at no point has an explicit check sent more than its probe,
\* a createBlockchain more than one probe and one POST, a testApiEndpoints
\* more than three requests.
EveryInvocationSettles ==
    /\ [](\A i \in Calls :
            LET c == calls[i]
            IN  /\ c.op = "checkApiHealth" => ( c.probes <= 1 /\ Requests(c) = c.probes )
                /\ c.op = "createBlockchain" =>
                     ( c.probes <= 1 /\ c.posts <= 1 /\ c.lists = 0 )
                /\ c.op = "testApiEndpoints" => Requests(c) <= 3)
    /\ \A i \in Calls :
          ( calls[i].pc \notin {"idle", "done"} ) ~> ( calls[i].pc = "done" )

\* C30 witness: a createBlockchain has settled after one probe and one POST
\* and a testApiEndpoints after three requests
SettledAfterAllRequests ==
    \E i, j \in Calls :
        /\ calls[i].op = "createBlockchain" /\ Done(calls[i])
        /\ calls[i].probes = 1 /\ calls[i].posts = 1
        /\ calls[j].op = "testApiEndpoints" /\ Done(calls[j])
        /\ Requests(calls[j]) = 3

====
